---- MODULE Spec2Model ----
(***************************************************************************)
(* A model of butler (src/src/main.rs): a thread-pooled HTTP/1.1 server    *)
(* that reads one buffer from each connection, parses it into a Request,   *)
(* routes it (with at most one call on the files/ directory), optionally   *)
(* gzip-compresses the Response and writes it to the socket.               *)
(*                                                                         *)
(* Byte strings are TLA+ strings, one character per byte.  All request     *)
(* text is ASCII except for the character InvalidByte, which stands for a  *)
(* byte that can occur in no UTF-8 encoding (such as 0xFF).  The three     *)
(* characters of Replacement stand for the three bytes EF BF BD that       *)
(* encode U+FFFD, the character String::from_utf8_lossy substitutes.       *)
(***************************************************************************)
EXTENDS Integers, Sequences, FiniteSets, TLC

(***************************************************************************)
(* String primitives of the Rust standard library, as the code uses them.  *)
(***************************************************************************)
CharAt(s, i) == SubSeq(s, i, i)

\* s[from..] with a 0-based byte offset, as Rust slices
Drop(s, n) == SubSeq(s, n + 1, Len(s))

Take(s, n) == SubSeq(s, 1, n)

starts_with(s, p) == Len(s) >= Len(p) /\ Take(s, Len(p)) = p

\* str::find from a given 1-based position: the first index >= from at
\* which pat occurs in s, or 0 when there is none
RECURSIVE FindFrom(_, _, _)
FindFrom(s, pat, from) ==
    IF from + Len(pat) - 1 > Len(s) THEN 0
    ELSE IF SubSeq(s, from, from + Len(pat) - 1) = pat THEN from
    ELSE FindFrom(s, pat, from + 1)

\* str::split(pat): the pieces between the occurrences of pat, the empty
\* ones included; always at least one piece
RECURSIVE split(_, _)
\* the pieces of s, whose first occurrence of pat is at i (0: none)
SplitAt(s, pat, i) ==
    IF i = 0 THEN <<s>>
    ELSE <<Take(s, i - 1)>> \o split(Drop(s, i - 1 + Len(pat)), pat)

split(s, pat) == SplitAt(s, pat, FindFrom(s, pat, 1))

\* str::split_terminator(pat): as split, but a last piece that is empty is
\* not produced
WithoutEmptyLast(all) ==
    IF all[Len(all)] = "" THEN SubSeq(all, 1, Len(all) - 1) ELSE all

split_terminator(s, pat) == WithoutEmptyLast(split(s, pat))

WhiteSpace == {" ", "\t", "\r", "\n"}

is_whitespace(c) == c \in WhiteSpace

RECURSIVE trim_start(_)
trim_start(s) ==
    IF s # "" /\ is_whitespace(CharAt(s, 1)) THEN trim_start(Drop(s, 1)) ELSE s

RECURSIVE trim_end(_)
trim_end(s) ==
    IF s # "" /\ is_whitespace(CharAt(s, Len(s)))
    THEN trim_end(Take(s, Len(s) - 1)) ELSE s

trim(s) == trim_end(trim_start(s))

\* the length of the longest prefix of s without whitespace
RECURSIVE WordLen(_)
WordLen(s) ==
    IF s = "" \/ is_whitespace(CharAt(s, 1)) THEN 0 ELSE 1 + WordLen(Drop(s, 1))

\* str::split_whitespace: the maximal runs of non-whitespace characters
RECURSIVE split_whitespace(_)
\* the words of t, which starts with a word of n characters, if it is not empty
WordsAt(t, n) ==
    IF t = "" THEN <<>> ELSE <<Take(t, n)>> \o split_whitespace(Drop(t, n))

WordsOf(t) == WordsAt(t, WordLen(t))

split_whitespace(s) == WordsOf(trim_start(s))

UpperCase == "ABCDEFGHIJKLMNOPQRSTUVWXYZ"

LowerCase == "abcdefghijklmnopqrstuvwxyz"

\* the lower-case letter of each upper-case letter
LowerOf ==
    [c \in {CharAt(UpperCase, i) : i \in 1..Len(UpperCase)} |->
        CharAt(LowerCase, FindFrom(UpperCase, c, 1))]

char_to_lowercase(c) == IF c \in DOMAIN LowerOf THEN LowerOf[c] ELSE c

RECURSIVE to_lowercase(_)
to_lowercase(s) ==
    IF s = "" THEN ""
    ELSE char_to_lowercase(CharAt(s, 1)) \o to_lowercase(Drop(s, 1))

\* Option<&str>: str::strip_prefix
None == [some |-> FALSE]

Some(v) == [some |-> TRUE, val |-> v]

strip_prefix(s, p) == IF starts_with(s, p) THEN Some(Drop(s, Len(p))) ELSE None

Digits == "0123456789"

\* Display for usize: the decimal digits of n
RECURSIVE to_string(_)
to_string(n) ==
    IF n < 10 THEN CharAt(Digits, n + 1)
    ELSE to_string(n \div 10) \o CharAt(Digits, (n % 10) + 1)

(***************************************************************************)
(* Result<T, anyhow::Error>: the error's message only feeds the log.       *)
(***************************************************************************)
Ok(v) == [ok |-> TRUE, val |-> v]

Err == [ok |-> FALSE]

(***************************************************************************)
(* enum Header                                                             *)
(***************************************************************************)
UserAgent(agent) == [tag |-> "UserAgent", agent |-> agent]

AcceptEncoding == [tag |-> "AcceptEncoding"]

ContentEncoding == [tag |-> "ContentEncoding"]

ContentType(content_type) == [tag |-> "ContentType", content_type |-> content_type]

ContentLength(length) == [tag |-> "ContentLength", length |-> length]

\* Vec::contains
contains(headers, h) == \E i \in 1..Len(headers) : headers[i] = h

(***************************************************************************)
(* The request parser                                                      *)
(***************************************************************************)
\* impl FromStr for Method
Method_from_str(s) ==
    LET l == to_lowercase(s)
    IN  IF l = "get" THEN Ok("Get")
        ELSE IF l = "post" THEN Ok("Post")
        ELSE Err

\* impl FromStr for Header: the name is the text before the first colon, the
\* value is the text between the first colon and the second
HeaderOf(name, value) ==
    IF name = "user-agent" THEN Ok(UserAgent(value))
    ELSE IF name = "accept-encoding" /\ value = "gzip" THEN Ok(AcceptEncoding)
    ELSE Err

HeaderOfParts(parts) ==
    IF Len(parts) < 2 THEN Err
    ELSE HeaderOf(to_lowercase(trim(parts[1])), trim(parts[2]))

Header_from_str(s) == HeaderOfParts(split(s, ":"))

\* a variant of RequestLine_from_str that takes every unknown method for GET
RequestLine_from_str_AnyMethod(s) ==
    LET parts == split_whitespace(s)
    IN  IF Len(parts) < 2 THEN Err
        ELSE Ok([method |-> IF to_lowercase(parts[1]) = "post" THEN "Post" ELSE "Get",
                 url    |-> parts[2]])

\* impl FromStr for RequestLine
RequestLineOf(parts, method) ==
    IF ~method.ok THEN Err
    ELSE IF Len(parts) < 2 THEN Err
    ELSE Ok([method |-> method.val, url |-> parts[2]])

RequestLineOfParts(parts) ==
    IF Len(parts) < 1 THEN Err ELSE RequestLineOf(parts, Method_from_str(parts[1]))

RequestLine_from_str(s) == RequestLineOfParts(split_whitespace(s))

\* the position in parts, from the second on, of the first empty piece, or 0
RECURSIVE FirstEmpty(_, _)
FirstEmpty(parts, i) ==
    IF i > Len(parts) THEN 0
    ELSE IF parts[i] = "" THEN i
    ELSE FirstEmpty(parts, i + 1)

\* filter_map(|header_str| header_str.parse().ok()) over parts[from..to]
KeptHeader(h) == IF h.ok THEN <<h.val>> ELSE <<>>

RECURSIVE ParseHeaders(_, _, _)
ParseHeaders(parts, from, to) ==
    IF from > to THEN <<>>
    ELSE KeptHeader(Header_from_str(parts[from])) \o ParseHeaders(parts, from + 1, to)

\* impl FromStr for Request.  take_while consumes the header lines and the
\* empty piece that ends them; body is the single piece that follows.
RequestOf(parts, line, k) ==
    IF ~line.ok THEN Err
    ELSE Ok([line    |-> line.val,
             headers |-> ParseHeaders(parts, 2, IF k = 0 THEN Len(parts) ELSE k - 1),
             body    |-> IF k # 0 /\ k < Len(parts) THEN Some(parts[k + 1]) ELSE None])

RequestOfParts(parts) ==
    IF Len(parts) = 0 THEN Err
    ELSE RequestOf(parts, RequestLine_from_str(parts[1]), FirstEmpty(parts, 2))

Request_from_str(s) == RequestOfParts(split_terminator(s, "\r\n"))

(***************************************************************************)
(* The single read and the lossy decoding of the buffer                    *)
(***************************************************************************)
\* let mut buf = [0; 4096]
BufSize == 4096

InvalidByte == "#"

Replacement == "{|}"

\* String::from_utf8_lossy on text that is ASCII but for InvalidByte
RECURSIVE from_utf8_lossy(_)
from_utf8_lossy(b) ==
    IF b = "" THEN ""
    ELSE (IF CharAt(b, 1) = InvalidByte THEN Replacement ELSE CharAt(b, 1))
         \o from_utf8_lossy(Drop(b, 1))

\* str::is_char_boundary for a 0-based byte offset no greater than the length:
\* the offset does not fall on a continuation byte
is_char_boundary(s, n) ==
    \/ n = 0
    \/ n = Len(s)
    \/ CharAt(s, n + 1) \notin {CharAt(Replacement, 2), CharAt(Replacement, 3)}

\* request[..bytes_read] of the decoded buffer: the decoded text is at least
\* bytes_read long (the buffer's unread zero bytes follow it), and the slice
\* panics when bytes_read is no character boundary
SliceTo(request, bytes_read) ==
    IF is_char_boundary(request, bytes_read) THEN Ok(Take(request, bytes_read)) ELSE Err

Sliced(bytes) == SliceTo(from_utf8_lossy(bytes), Len(bytes))

\* request[..bytes_read].parse(): Err when the slice panics or the parse fails
ParsedSlice(sliced) == IF sliced.ok THEN Request_from_str(sliced.val) ELSE Err

Parsed(bytes) == ParsedSlice(Sliced(bytes))

(***************************************************************************)
(* struct Response and its constructors                                    *)
(***************************************************************************)
Response(status_code, headers, body) ==
    [status_code |-> status_code, headers |-> headers, body |-> body]

\* a variant of empty that announces a length of zero
empty_WithLength == Response(200, <<[tag |-> "ContentLength", length |-> 0]>>, None)

empty == Response(200, <<>>, None)

not_found == Response(404, <<>>, None)

\* a variant of created with the status 204 No Content
created_NoContent == Response(204, <<>>, None)

created == Response(201, <<>>, None)

\* a variant of text that leaves the Content-Length header out
text_NoLength(t) == Response(200, <<ContentType("TextPlain")>>, Some(t))

text(t) ==
    Response(200, <<ContentType("TextPlain"), ContentLength(Len(t))>>, Some(t))

(***************************************************************************)
(* The files/ directory.  A file store maps the names of the regular files *)
(* in it to their contents.  The names "", "." and ".." make the paths     *)
(* files/, files/. and files/.., which are directories: opening one        *)
(* succeeds, reading it fails, and it cannot be created or truncated as a  *)
(* file.  Names are drawn without "/" here.                                *)
(***************************************************************************)
is_dir(file_name) == file_name \in {"", ".", ".."}

\* File::open(format!("files/{file_name}"))
open_ok(store, file_name) == is_dir(file_name) \/ file_name \in DOMAIN store

\* file.read_to_end(&mut content)
read_to_end(store, file_name) ==
    IF is_dir(file_name) THEN Err ELSE Ok(store[file_name])

\* the store with file_name holding contents
Stored(store, file_name, contents) ==
    [n \in DOMAIN store \cup {file_name} |->
        IF n = file_name THEN contents ELSE store[n]]

\* a file that held old, after contents were written from its first byte on:
\* the bytes of old beyond the length of contents stay
WrittenAtStart(old, contents) == contents \o Drop(old, Len(contents))

\* a variant of file that answers a failed open or read with an empty file
file_EmptyOnFailure(store, file_name) ==
    LET content == IF open_ok(store, file_name) /\ ~is_dir(file_name)
                   THEN store[file_name] ELSE ""
    IN  Response(200,
                 <<ContentType("ApplicationOctetStream"), ContentLength(Len(content))>>,
                 Some(content))

\* Response::file
file(store, file_name) ==
    IF ~open_ok(store, file_name) THEN not_found
    ELSE LET content == read_to_end(store, file_name)
         IN  IF ~content.ok THEN not_found
             ELSE Response(200,
                           <<ContentType("ApplicationOctetStream"),
                             ContentLength(Len(content.val))>>,
                           Some(content.val))

(***************************************************************************)
(* Compression.  GzEncoder is a library primitive: the encoding of b is b  *)
(* between a gzip header and a gzip trailer, so that it differs from b in  *)
(* length and decodes to b alone.                                          *)
(***************************************************************************)
GzipHeader == "\\gz"

GzipTrailer == "\\"

Gzip(b) == GzipHeader \o b \o GzipTrailer

Gunzip(z) ==
    IF /\ Len(z) >= Len(GzipHeader) + Len(GzipTrailer)
       /\ starts_with(z, GzipHeader)
       /\ Drop(z, Len(z) - Len(GzipTrailer)) = GzipTrailer
    THEN Ok(SubSeq(z, Len(GzipHeader) + 1, Len(z) - Len(GzipTrailer)))
    ELSE Err

\* the position of the first ContentLength header at or after i, or 0
RECURSIVE FindContentLength(_, _)
FindContentLength(headers, i) ==
    IF i > Len(headers) THEN 0
    ELSE IF headers[i].tag = "ContentLength" THEN i
    ELSE FindContentLength(headers, i + 1)

\* a variant of compressed that leaves the ContentLength header as it was
compressed_StaleLength(self) ==
    LET headers == Append(self.headers, ContentEncoding)
    IN  IF ~self.body.some THEN Ok(Response(self.status_code, headers, self.body))
        ELSE IF FindContentLength(headers, 1) = 0 THEN Err
        ELSE Ok(Response(self.status_code, headers, Some(Gzip(self.body.val))))

\* Response::compressed.  Err stands for the panic of the expect() on a
\* response that has a body and no ContentLength header.
compressed(self) ==
    LET headers == Append(self.headers, ContentEncoding)
    IN  IF ~self.body.some THEN Ok(Response(self.status_code, headers, self.body))
        ELSE LET body == Gzip(self.body.val)
                 i    == FindContentLength(headers, 1)
             IN  IF i = 0 THEN Err
                 ELSE Ok(Response(self.status_code,
                                  [headers EXCEPT ![i] = ContentLength(Len(body))],
                                  Some(body)))

(***************************************************************************)
(* Serialization                                                           *)
(***************************************************************************)
\* impl fmt::Display for ContentType
ContentType_fmt(content_type) ==
    IF content_type = "TextPlain" THEN "text/plain" ELSE "application/octet-stream"

\* impl fmt::Display for Header; Err stands for the todo!() panic
Header_fmt(h) ==
    IF h.tag = "ContentType" THEN Ok("Content-Type: " \o ContentType_fmt(h.content_type))
    ELSE IF h.tag = "ContentLength" THEN Ok("Content-Length: " \o to_string(h.length))
    ELSE IF h.tag = "ContentEncoding" THEN Ok("Content-Encoding: gzip")
    ELSE Err

\* the status text of write_to; Err stands for the todo!() panic
StatusText(status_code) ==
    IF status_code = 200 THEN Ok("200 OK")
    ELSE IF status_code = 201 THEN Ok("201 Created")
    ELSE IF status_code = 404 THEN Ok("404 Not Found")
    ELSE Err

\* the fold of write_to over the headers, each followed by CRLF
RECURSIVE HeadersText(_)
HeadersText(headers) ==
    IF headers = <<>> THEN Ok("")
    ELSE LET h    == Header_fmt(Head(headers))
             rest == HeadersText(Tail(headers))
         IN  IF h.ok /\ rest.ok THEN Ok(h.val \o "\r\n" \o rest.val) ELSE Err

\* what the write!() of write_to sends: status line, headers, empty line
HeadText(self) ==
    LET status  == StatusText(self.status_code)
        headers == HeadersText(self.headers)
    IN  IF status.ok /\ headers.ok
        THEN Ok("HTTP/1.1 " \o status.val \o "\r\n" \o headers.val \o "\r\n")
        ELSE Err

\* Response::write_to into a writer that accepts every byte
write_to(self) ==
    LET head == HeadText(self)
    IN  IF ~head.ok THEN Err
        ELSE Ok(head.val \o (IF self.body.some THEN self.body.val ELSE ""))

(***************************************************************************)
(* The router: the match of handle_connection on the URL.  It answers with *)
(* a Response, fails (the ? on a missing header or body), or asks for the  *)
(* fs::write of a POST to /files/.                                         *)
(***************************************************************************)
\* find_map(|header| if let Header::UserAgent(agent) = header ...)
RECURSIVE find_user_agent(_)
find_user_agent(headers) ==
    IF headers = <<>> THEN None
    ELSE IF Head(headers).tag = "UserAgent" THEN Some(Head(headers).agent)
    ELSE find_user_agent(Tail(headers))

Answer(response) == [kind |-> "answer", response |-> response]

Fail == [kind |-> "fail"]

FsWrite(file_name, contents) ==
    [kind |-> "fs_write", file_name |-> file_name, contents |-> contents]

\* a variant of Router that matches /echo and /files without the slash after
\* them
Router_LoosePrefix(req, store) ==
    LET url        == req.line.url
        user_agent == find_user_agent(req.headers)
        string     == strip_prefix(url, "/echo")
        file_name  == strip_prefix(url, "/files")
    IN  IF url = "/" THEN Answer(empty)
        ELSE IF url = "/user-agent"
             THEN IF user_agent.some THEN Answer(text(user_agent.val)) ELSE Fail
        ELSE IF string.some THEN Answer(text(string.val))
        ELSE IF file_name.some
             THEN IF req.line.method = "Get" THEN Answer(file(store, file_name.val))
                  ELSE IF req.body.some THEN FsWrite(file_name.val, req.body.val)
                  ELSE Fail
        ELSE Answer(not_found)

\* a variant of Router that takes a missing body for an empty one and a
\* missing User-Agent for an empty one
Router_Lenient(req, store) ==
    LET url        == req.line.url
        user_agent == find_user_agent(req.headers)
        string     == strip_prefix(url, "/echo/")
        file_name  == strip_prefix(url, "/files/")
    IN  IF url = "/" THEN Answer(empty)
        ELSE IF url = "/user-agent"
             THEN Answer(text(IF user_agent.some THEN user_agent.val ELSE ""))
        ELSE IF string.some THEN Answer(text(string.val))
        ELSE IF file_name.some
             THEN IF req.line.method = "Get" THEN Answer(file(store, file_name.val))
                  ELSE FsWrite(file_name.val, IF req.body.some THEN req.body.val ELSE "")
        ELSE Answer(not_found)

Router(req, store) ==
    LET url        == req.line.url
        user_agent == find_user_agent(req.headers)
        string     == strip_prefix(url, "/echo/")
        file_name  == strip_prefix(url, "/files/")
    IN  IF url = "/" THEN Answer(empty)
        ELSE IF url = "/user-agent"
             THEN IF user_agent.some THEN Answer(text(user_agent.val)) ELSE Fail
        ELSE IF string.some THEN Answer(text(string.val))
        ELSE IF file_name.some
             THEN IF req.line.method = "Get" THEN Answer(file(store, file_name.val))
                  ELSE IF req.body.some THEN FsWrite(file_name.val, req.body.val)
                  ELSE Fail
        ELSE Answer(not_found)

\* a variant of Negotiated that compresses whatever the request asked
Negotiated_Always(req, response) == compressed(response)

\* if request.headers.contains(&Header::AcceptEncoding) { response.compressed() }
Negotiated(req, response) ==
    IF contains(req.headers, AcceptEncoding) THEN compressed(response) ELSE Ok(response)

(***************************************************************************)
(* The server.  Each connection slot carries one connection at a time from *)
(* accept to close; a closed connection leaves its slot to the next one.   *)
(* The connection id of main only feeds the log and is not kept.           *)
(***************************************************************************)
\* const NUM_THREADS: usize = 500
NUM_THREADS == 500

VARIABLES
    pc,        \* where each connection is in main and handle_connection
    queue,     \* the jobs the pool has not started yet, oldest first
    raw,       \* the bytes the connection's read returned
    request,   \* the parsed Request
    routed,    \* the Response the router built
    response,  \* the Response handed to write_to
    wire,      \* the bytes written to the connection's socket
    outcome,   \* how handle_connection ended: "ok", "err" or "panic"
    pending,   \* the fs::write a connection is in the middle of
    files,     \* the regular files of the files/ directory
    worker,    \* the pool thread that runs the connection's job, 0 for none
    logged     \* whether main has logged an error

vars == <<pc, queue, raw, request, routed, response, wire, outcome, pending, files,
          worker, logged>>

Conns == DOMAIN pc

InHandler == {"read", "route", "fs_write", "respond"}

Busy == {c \in Conns : pc[c] \in InHandler}

NoWrite == [file_name |-> "", contents |-> ""]

\* the state of the server with the connection slots S, none of them in use
InitWith(S) ==
    /\ pc = [c \in S |-> "idle"]
    /\ queue = <<>>
    /\ raw = [c \in S |-> ""]
    /\ request = [c \in S |-> None]
    /\ routed = [c \in S |-> None]
    /\ response = [c \in S |-> None]
    /\ wire = [c \in S |-> ""]
    /\ outcome = [c \in S |-> "none"]
    /\ pending = [c \in S |-> NoWrite]
    /\ files = <<>>
    /\ worker = [c \in S |-> 0]
    /\ logged = FALSE

\* handle_connection returns (or unwinds) and the stream is dropped; the
\* job's thread is free again, and main's closure logs a returned error
Close(c, how) ==
    /\ pc' = [pc EXCEPT ![c] = "closed"]
    /\ outcome' = [outcome EXCEPT ![c] = how]
    /\ worker' = [worker EXCEPT ![c] = 0]
    /\ logged' = (logged \/ how = "err")

\* a variant of Accept that hands the connection's job to the pool twice
Accept_Twice(c) ==
    /\ pc[c] = "idle"
    /\ pc' = [pc EXCEPT ![c] = "queued"]
    /\ queue' = Append(Append(queue, c), c)
    /\ UNCHANGED <<raw, request, routed, response, wire, outcome, pending, files,
                   worker, logged>>

\* listener.incoming() yields a stream and main hands its job to the pool
Accept(c) ==
    /\ pc[c] = "idle"
    /\ pc' = [pc EXCEPT ![c] = "queued"]
    /\ queue' = Append(queue, c)
    /\ UNCHANGED <<raw, request, routed, response, wire, outcome, pending, files,
                   worker, logged>>

\* a variant of AcceptFail in which the error ends the accept loop and the
\* jobs not yet started are lost with the pool
AcceptFail_Stops ==
    /\ logged' = TRUE
    /\ queue' = <<>>
    /\ UNCHANGED <<pc, raw, request, routed, response, wire, outcome,
                   pending, files, worker>>

\* listener.incoming() yields an error: main logs it and goes on
AcceptFail ==
    /\ logged' = TRUE
    /\ UNCHANGED <<pc, queue, raw, request, routed, response, wire, outcome,
                   pending, files, worker>>

\* a variant of Execute that starts a thread for the oldest job whatever the
\* number of busy workers
Execute_Unbounded(c, w, capacity) ==
    /\ queue # <<>>
    /\ c = Head(queue)
    /\ w \in 1..capacity
    /\ pc' = [pc EXCEPT ![c] = "read"]
    /\ queue' = Tail(queue)
    /\ worker' = [worker EXCEPT ![c] = w]
    /\ UNCHANGED <<raw, request, routed, response, wire, outcome, pending, files,
                   logged>>

\* the idle worker w of a pool of the given capacity takes the oldest job
Execute(c, w, capacity) ==
    /\ queue # <<>>
    /\ c = Head(queue)
    /\ Cardinality(Busy) < capacity
    /\ w \in 1..capacity
    /\ \A d \in Busy : worker[d] # w
    /\ pc' = [pc EXCEPT ![c] = "read"]
    /\ queue' = Tail(queue)
    /\ worker' = [worker EXCEPT ![c] = w]
    /\ UNCHANGED <<raw, request, routed, response, wire, outcome, pending, files,
                   logged>>

\* stream.read returns bytes; the buffer is decoded, sliced and parsed
Read(c, bytes) ==
    /\ pc[c] = "read"
    /\ Len(bytes) =< BufSize
    /\ raw' = [raw EXCEPT ![c] = bytes]
    /\ \E sliced \in {Sliced(bytes)} : \E req \in {ParsedSlice(sliced)} :
           IF ~sliced.ok
           THEN Close(c, "panic") /\ UNCHANGED request
           ELSE IF ~req.ok
           THEN Close(c, "err") /\ UNCHANGED request
           ELSE /\ pc' = [pc EXCEPT ![c] = "route"]
                /\ request' = [request EXCEPT ![c] = Some(req.val)]
                /\ UNCHANGED <<outcome, worker, logged>>
    /\ UNCHANGED <<queue, routed, response, wire, pending, files>>

\* stream.read fails
ReadFail(c) ==
    /\ pc[c] = "read"
    /\ Close(c, "err")
    /\ UNCHANGED <<queue, raw, request, routed, response, wire, pending, files>>

\* the match on the URL; for a POST to /files/ with a body, the first half
\* of fs::write: the file is created, or truncated when it exists
Route(c) ==
    /\ pc[c] = "route"
    /\ LET r == Router(request[c].val, files)
       IN  CASE r.kind = "answer" ->
                  /\ routed' = [routed EXCEPT ![c] = Some(r.response)]
                  /\ pc' = [pc EXCEPT ![c] = "respond"]
                  /\ UNCHANGED <<outcome, pending, files, worker, logged>>
             [] r.kind = "fail" ->
                  /\ Close(c, "err")
                  /\ UNCHANGED <<routed, pending, files>>
             [] r.kind = "fs_write" ->
                  IF is_dir(r.file_name)
                  THEN /\ Close(c, "err")
                       /\ UNCHANGED <<routed, pending, files>>
                  ELSE /\ files' = Stored(files, r.file_name, "")
                       /\ pending' = [pending EXCEPT ![c] =
                                        [file_name |-> r.file_name,
                                         contents  |-> r.contents]]
                       /\ pc' = [pc EXCEPT ![c] = "fs_write"]
                       /\ UNCHANGED <<routed, outcome, worker, logged>>
    /\ UNCHANGED <<queue, raw, request, response, wire>>

\* the second half of fs::write: write_all puts the contents at the start
\* of the file, over what the file holds by then, and the router answers
\* Response::created()
FsWriteAll(c) ==
    /\ pc[c] = "fs_write"
    /\ files' = Stored(files, pending[c].file_name,
                       WrittenAtStart(files[pending[c].file_name], pending[c].contents))
    /\ pending' = [pending EXCEPT ![c] = NoWrite]
    /\ routed' = [routed EXCEPT ![c] = Some(created)]
    /\ pc' = [pc EXCEPT ![c] = "respond"]
    /\ UNCHANGED <<queue, raw, request, response, wire, outcome, worker, logged>>

\* a variant of Respond that writes the response the router built last for
\* any connection, as if the response were kept in one place for all workers
Respond_Shared(c) ==
    /\ pc[c] = "respond"
    /\ \E d \in {e \in Conns : routed[e].some} :
       \E final \in {Negotiated(request[c].val, routed[d].val)} :
           IF ~final.ok
           THEN Close(c, "panic") /\ UNCHANGED <<response, wire>>
           ELSE /\ response' = [response EXCEPT ![c] = Some(final.val)]
                /\ \E out \in {write_to(final.val)} :
                       IF ~out.ok
                       THEN Close(c, "panic") /\ UNCHANGED wire
                       ELSE Close(c, "ok") /\ wire' = [wire EXCEPT ![c] = out.val]
    /\ UNCHANGED <<queue, raw, request, routed, pending, files>>

\* a variant of Respond that keeps the connection open after the response
\* and reads from it again
Respond_KeepAlive(c) ==
    /\ pc[c] = "respond"
    /\ \E final \in {Negotiated(request[c].val, routed[c].val)} :
           IF ~final.ok
           THEN Close(c, "panic") /\ UNCHANGED <<response, wire>>
           ELSE /\ response' = [response EXCEPT ![c] = Some(final.val)]
                /\ \E out \in {write_to(final.val)} :
                       IF ~out.ok
                       THEN Close(c, "panic") /\ UNCHANGED wire
                       ELSE /\ pc' = [pc EXCEPT ![c] = "read"]
                            /\ wire' = [wire EXCEPT ![c] = out.val]
                            /\ UNCHANGED <<outcome, worker, logged>>
    /\ UNCHANGED <<queue, raw, request, routed, pending, files>>

\* compression when negotiated, write_to, flush, and the return of Ok(())
Respond(c) ==
    /\ pc[c] = "respond"
    /\ \E final \in {Negotiated(request[c].val, routed[c].val)} :
           IF ~final.ok
           THEN Close(c, "panic") /\ UNCHANGED <<response, wire>>
           ELSE /\ response' = [response EXCEPT ![c] = Some(final.val)]
                /\ \E out \in {write_to(final.val)} :
                       IF ~out.ok
                       THEN Close(c, "panic") /\ UNCHANGED wire
                       ELSE Close(c, "ok") /\ wire' = [wire EXCEPT ![c] = out.val]
    /\ UNCHANGED <<queue, raw, request, routed, pending, files>>

\* the socket refuses the response: either the write!() of the head fails
\* and nothing is sent, or the head is sent and the write_all of the body
\* fails (write_all of no bytes writes nothing and cannot fail)
WriteFail(c, head_sent) ==
    /\ pc[c] = "respond"
    /\ \E final \in {Negotiated(request[c].val, routed[c].val)} :
           /\ final.ok
           /\ \E head \in {HeadText(final.val)} :
                  /\ head.ok
                  /\ head_sent => final.val.body.some /\ final.val.body.val # ""
                  /\ wire' = [wire EXCEPT ![c] = IF head_sent THEN head.val ELSE ""]
           /\ response' = [response EXCEPT ![c] = Some(final.val)]
    /\ Close(c, "err")
    /\ UNCHANGED <<queue, raw, request, routed, pending, files>>

\* the client is done with a closed connection; its slot is free again
Reap(c) ==
    /\ pc[c] = "closed"
    /\ pc' = [pc EXCEPT ![c] = "idle"]
    /\ raw' = [raw EXCEPT ![c] = ""]
    /\ request' = [request EXCEPT ![c] = None]
    /\ routed' = [routed EXCEPT ![c] = None]
    /\ response' = [response EXCEPT ![c] = None]
    /\ wire' = [wire EXCEPT ![c] = ""]
    /\ outcome' = [outcome EXCEPT ![c] = "none"]
    /\ UNCHANGED <<queue, pending, files, worker, logged>>

(***************************************************************************)
(* What a read can return: nothing at all (the client closed the           *)
(* connection), or a request line, at most MaxHeaders header lines, with   *)
(* or without a last line that negotiates gzip, and an ending.             *)
(***************************************************************************)
MaxHeaders == 1

Urls == {"/", "/user-agent", "/echo/hi", "/echo", "/files/a", "/files/", "/files", "/x"}

RequestLines ==
    {m \o " " \o u \o " HTTP/1.1" : m \in {"GET", "post"}, u \in Urls}
        \cup {"", "GET", "PUT / HTTP/1.1"}

HeaderLines == {"User-Agent: ua", "user-agent:a:b", "accept-encoding: br",
                "Accept-Encoding: gzip:x", "Host: h", "junk"}

GzipLines == {"", "Accept-Encoding: gzip\r\n"}

\* no empty line; an empty line; an empty line and a body: plain, holding a
\* CRLF, starting with a CRLF, holding an invalid byte early or late
Endings == {"", "\r\n", "\r\ndata", "\r\ndata\r\ny", "\r\n\r\ny", "\r\n#zz", "\r\nz#"}

RECURSIVE Lines(_)
Lines(hs) == IF hs = <<>> THEN "" ELSE Head(hs) \o "\r\n" \o Lines(Tail(hs))

HeaderBlocks ==
    {Lines(hs) \o g : hs \in UNION {[1..k -> HeaderLines] : k \in 0..MaxHeaders},
                      g \in GzipLines}

Requests ==
    {""} \cup {l \o "\r\n" \o h \o e : l \in RequestLines, h \in HeaderBlocks, e \in Endings}

(***************************************************************************)
(* Spec: connections served one after another, on every request           *)
(***************************************************************************)
Slots == {"c1"}

\* with one connection at a time every worker is idle when a job arrives;
\* the workers are interchangeable and the first one stands for all
SpecWorkers == {1}

Init == InitWith(Slots)

Next ==
    \E c \in Slots :
        \/ Accept(c)
        \/ \E w \in SpecWorkers : Execute(c, w, NUM_THREADS)
        \/ pc[c] = "read" /\ \E bytes \in Requests : Read(c, bytes)
        \/ ReadFail(c)
        \/ Route(c)
        \/ FsWriteAll(c)
        \/ Respond(c)
        \/ \E head_sent \in BOOLEAN : WriteFail(c, head_sent)
        \/ Reap(c)
        \/ AcceptFail

Spec == Init /\ [][Next]_vars

(***************************************************************************)
(* SpecPool: connections handled concurrently by a pool of PoolSize        *)
(* workers.  The clients of Clients send one of PoolRequests; the clients  *)
(* of Silent connect and never send a byte nor close, so that the read of  *)
(* their connection never returns.                                         *)
(***************************************************************************)
PoolSize == 2

Clients == {"c1", "c2"}

Silent == {"s1", "s2", "s3"}

PoolRequests ==
    {"GET / HTTP/1.1\r\n\r\n",
     "GET /echo/hi HTTP/1.1\r\nAccept-Encoding: gzip\r\n\r\n",
     "GET /files/a HTTP/1.1\r\n\r\n",
     "POST /files/a HTTP/1.1\r\n\r\ndata",
     "POST /files/a HTTP/1.1\r\n\r\nhi"}

PoolInit == InitWith(Clients \cup Silent)

PoolNext ==
    \/ \E c \in Clients \cup Silent :
           \/ Accept(c)
           \/ \E w \in 1..PoolSize : Execute(c, w, PoolSize)
    \/ \E c \in Clients :
           \/ pc[c] = "read" /\ \E bytes \in PoolRequests : Read(c, bytes)
           \/ Route(c)
           \/ FsWriteAll(c)
           \/ Respond(c)
           \/ Reap(c)

SpecPool == PoolInit /\ [][PoolNext]_vars

(***************************************************************************)
(* The client's side: what a client reads off the socket, and the answer a *)
(* connection that is not disturbed gets.                                  *)
(***************************************************************************)
\* the lines of the head of a response: the status line and the header lines
WireHead(w) == split(Take(w, FindFrom(w, "\r\n\r\n", 1) - 1), "\r\n")

\* the bytes after the empty line that ends the head
WireBody(w) == Drop(w, FindFrom(w, "\r\n\r\n", 1) + 3)

WireStatus(w) == WireHead(w)[1]

\* the values of the header lines of w with the given name
WireValues(w, name) ==
    LET head == WireHead(w)
        pre  == name \o ": "
    IN  [i \in {j \in 2..Len(head) : starts_with(head[j], pre)} |->
            Drop(head[i], Len(pre))]

\* the bytes a client sent after the first empty line of its request
SentBody(bytes) ==
    LET i == FindFrom(bytes, "\r\n\r\n", 1)
    IN  IF i = 0 THEN "" ELSE Drop(bytes, i + 3)

\* handle_connection from read to flush against a store no one else writes,
\* for a request that is not a POST to /files/: the bytes written, or Err
\* when the connection is closed without a response
Served(bytes, store) ==
    LET sliced == Sliced(bytes)
        req    == Request_from_str(sliced.val)
        r      == Router(req.val, store)
        final  == Negotiated(req.val, r.response)
    IN  IF ~sliced.ok THEN Err
        ELSE IF ~req.ok THEN Err
        ELSE IF r.kind # "answer" THEN Err
        ELSE IF ~final.ok THEN Err
        ELSE write_to(final.val)

(***************************************************************************)
(* Properties                                                              *)
(***************************************************************************)
\* handle_connection returned Ok(()): the whole response was written
Answered(c) == pc[c] = "closed" /\ outcome[c] = "ok"

\* the connection has a parsed request with this URL
HasUrl(c, url) == request[c].some /\ request[c].val.line.url = url

Negotiates(c) == contains(request[c].val.headers, AcceptEncoding)

\* C1: every response written in full that has a body carries exactly one
\* Content-Length header, whose value is the decimal length of the body bytes
\* that follow the head on the socket, which are the body as it is after
\* compressed() has run.
C1_ContentLengthExact ==
    \A c \in Conns :
        Answered(c) /\ response[c].val.body.some =>
            LET lens == WireValues(wire[c], "Content-Length")
            IN  /\ Cardinality(DOMAIN lens) = 1
                /\ \A i \in DOMAIN lens : lens[i] = to_string(Len(WireBody(wire[c])))
                /\ WireBody(wire[c]) = response[c].val.body.val

\* a compressed response with a body has been written
C1_Witness ==
    \E c \in Conns :
        /\ Answered(c)
        /\ Negotiates(c)
        /\ response[c].val.body.some
        /\ response[c].val.body.val # routed[c].val.body.val

\* C2 as stated: every response to a parsed request for "/" has status 200,
\* no body and no headers.
C2_RootBare ==
    \A c \in Conns :
        Answered(c) /\ HasUrl(c, "/") => wire[c] = "HTTP/1.1 200 OK\r\n\r\n"

\* C2, amended: a parsed request for "/" never fails in the router, and the
\* response written to it is status 200 without body, with the single header
\* Content-Encoding: gzip when the request negotiated gzip and with no header
\* otherwise.
C2_RootBareOrEncoded ==
    \A c \in Conns :
        HasUrl(c, "/") =>
            /\ pc[c] = "closed" => routed[c] = Some(Response(200, <<>>, None))
            /\ Answered(c) =>
                  wire[c] = "HTTP/1.1 200 OK\r\n"
                            \o (IF Negotiates(c) THEN "Content-Encoding: gzip\r\n" ELSE "")
                            \o "\r\n"

\* a POST for "/" with headers and a body has been answered
C2_Witness ==
    \E c \in Conns :
        /\ Answered(c)
        /\ HasUrl(c, "/")
        /\ request[c].val.line.method = "Post"
        /\ request[c].val.body.some
        /\ Len(request[c].val.headers) = 2

\* the name after /files/ in the URL of the connection's request
FileName(c) == Drop(request[c].val.line.url, Len("/files/"))

IsFilesUrl(c) == request[c].some /\ starts_with(request[c].val.line.url, "/files/")

\* C3 as stated: once a POST /files/<name> with body B has been answered 201,
\* a GET /files/<name> on a new connection, with no writer in between, is
\* answered 200 with exactly the bytes B as its body.
C3_RoundTrip ==
    \A c \in Conns :
        /\ Answered(c)
        /\ IsFilesUrl(c)
        /\ request[c].val.line.method = "Post"
        /\ WireStatus(wire[c]) = "HTTP/1.1 201 Created"
        => LET get == Served("GET /files/" \o FileName(c) \o " HTTP/1.1\r\n\r\n", files)
           IN  /\ get.ok
               /\ WireStatus(get.val) = "HTTP/1.1 200 OK"
               /\ WireBody(get.val) = SentBody(raw[c])

\* C4: a response written in full has one Content-Encoding: gzip header when
\* the parsed request holds an Accept-Encoding: gzip header and none
\* otherwise; its status is the one the router chose; when gzip was
\* negotiated and the router's response has a body, the body written
\* decompresses to exactly that body, and otherwise the body is written as
\* the router built it.
C4_GzipNegotiation ==
    \A c \in Conns :
        Answered(c) =>
            LET enc  == WireValues(wire[c], "Content-Encoding")
                body == routed[c].val.body
            IN  /\ Cardinality(DOMAIN enc) = IF Negotiates(c) THEN 1 ELSE 0
                /\ \A i \in DOMAIN enc : enc[i] = "gzip"
                /\ WireStatus(wire[c]) = "HTTP/1.1 " \o StatusText(routed[c].val.status_code).val
                /\ Negotiates(c) /\ body.some => Gunzip(WireBody(wire[c])) = Ok(body.val)
                /\ ~Negotiates(c) /\ body.some => WireBody(wire[c]) = body.val
                /\ ~body.some => WireBody(wire[c]) = ""

\* GET /echo/hi with Accept-Encoding: gzip has been answered with a body that
\* decompresses to hi
C4_Witness ==
    \E c \in Conns :
        /\ Answered(c)
        /\ HasUrl(c, "/echo/hi")
        /\ Negotiates(c)
        /\ WireValues(wire[c], "Content-Encoding") # <<>>
        /\ Gunzip(WireBody(wire[c])) = Ok("hi")

\* the request line of the decoded bytes does not parse: there is no line at
\* all, or no first token, or a first token that is neither GET nor POST in
\* any case, or no second token
LineFails(bytes) ==
    LET lines  == split_terminator(Sliced(bytes).val, "\r\n")
        tokens == split_whitespace(lines[1])
    IN  \/ lines = <<>>
        \/ tokens = <<>>
        \/ to_lowercase(tokens[1]) \notin {"get", "post"}
        \/ Len(tokens) < 2

\* a connection that has read bytes whose request line does not parse
LineFailed(c) ==
    /\ pc[c] \notin {"idle", "queued", "read"}
    /\ Sliced(raw[c]).ok
    /\ LineFails(raw[c])

\* C5: a connection whose request line fails to parse is closed by the step
\* that read it, with handle_connection returning an error, no byte written,
\* no request kept and no route taken; that step leaves the file store as it
\* was.
C5_BadLineRejected ==
    /\ [](\A c \in Conns :
            LineFailed(c) =>
                /\ pc[c] = "closed"
                /\ outcome[c] = "err"
                /\ wire[c] = ""
                /\ request[c] = None
                /\ routed[c] = None
                /\ pending[c] = NoWrite)
    /\ [][\A c \in Conns :
            pc[c] = "read" /\ pc'[c] = "closed" => files' = files]_vars

\* a request with an unknown method has been rejected while a file exists
C5_Witness ==
    \E c \in Conns :
        /\ LineFailed(c)
        /\ starts_with(raw[c], "PUT ")
        /\ files # <<>>

\* the pieces of bytes between CRLFs, and bytes without its i-th piece
RECURSIVE Joined(_)
Joined(parts) ==
    IF Len(parts) = 1 THEN parts[1]
    ELSE parts[1] \o "\r\n" \o Joined(Tail(parts))

WithoutLine(bytes, i) ==
    LET parts == split(bytes, "\r\n")
    IN  Joined(SubSeq(parts, 1, i - 1) \o SubSeq(parts, i + 1, Len(parts)))

\* the positions, among the pieces of bytes, of its header lines
HeaderLineIndexes(bytes) ==
    LET parts == split(bytes, "\r\n")
        k     == FirstEmpty(parts, 2)
    IN  2..(IF k = 0 THEN Len(parts) ELSE k - 1)

\* a header line as the specification reads it: name and value around the
\* first colon.  It fails when it has no colon, a name that is not
\* recognized, or the name Accept-Encoding with a value other than gzip
SpecHeaderFails(line) ==
    LET i     == FindFrom(line, ":", 1)
        name  == to_lowercase(trim(Take(line, i - 1)))
        value == trim(Drop(line, i))
    IN  \/ i = 0
        \/ name \notin {"user-agent", "accept-encoding"}
        \/ name = "accept-encoding" /\ value # "gzip"


\* C6 as stated: a header line that fails to parse (no colon, unrecognized
\* name, Accept-Encoding with a value other than gzip) is dropped on its own:
\* the request parsed is the one parsed from the same bytes without that line.
C6_FailingHeaderDropped ==
    \A c \in Conns :
        request[c].some =>
            \A i \in HeaderLineIndexes(raw[c]) :
                SpecHeaderFails(split(raw[c], "\r\n")[i]) =>
                    Parsed(WithoutLine(raw[c], i)) = Ok(request[c].val)

\* the part of C6 that holds: a header line on which Header::from_str fails
\* is dropped on its own
C6_ParseFailureDropped ==
    \A c \in Conns :
        request[c].some =>
            \A i \in HeaderLineIndexes(raw[c]) :
                ~Header_from_str(split(raw[c], "\r\n")[i]).ok =>
                    Parsed(WithoutLine(raw[c], i)) = Ok(request[c].val)

\* the connection's request has passed the router
Routed(c) == request[c].some /\ pc[c] \in {"respond", "closed"}

NoUserAgent(c) ==
    \A i \in 1..Len(request[c].val.headers) : request[c].val.headers[i].tag # "UserAgent"

\* handle_connection returned an error and nothing was written
ClosedSilently(c) ==
    /\ pc[c] = "closed"
    /\ outcome[c] = "err"
    /\ wire[c] = ""
    /\ routed[c] = None
    /\ response[c] = None

\* the step of connection c out of the router
Routing(c) == pc[c] = "route" /\ pc'[c] # "route"

\* C7: a request for /user-agent without a parsed User-Agent header, and a
\* POST to /files/<name> without a parsed body, leave the router with an
\* error: the connection is closed with no byte written; the routing step of
\* such a POST leaves the file store as it was and starts no file write.
C7_RouteFailureSilent ==
    /\ [](\A c \in Conns :
            Routed(c) =>
                /\ HasUrl(c, "/user-agent") /\ NoUserAgent(c) => ClosedSilently(c)
                /\ /\ IsFilesUrl(c)
                   /\ request[c].val.line.method = "Post"
                   /\ ~request[c].val.body.some
                   => ClosedSilently(c) /\ pending[c] = NoWrite)
    /\ [][\A c \in Conns :
            /\ Routing(c)
            /\ IsFilesUrl(c)
            /\ request[c].val.line.method = "Post"
            /\ ~request[c].val.body.some
            => files' = files /\ pc'[c] = "closed"]_vars

\* a POST to /files/a without a body has been closed silently
C7_Witness ==
    \E c \in Conns :
        /\ ClosedSilently(c)
        /\ HasUrl(c, "/files/a")
        /\ request[c].val.line.method = "Post"
        /\ ~request[c].val.body.some

\* C8: every Response built by the router or handed to write_to has status
\* 200, 201 or 404, and no connection with a parsed request ends in a panic:
\* the only panic is the slice of the decoded buffer, before parsing.
C8_StatusImplemented ==
    \A c \in Conns :
        /\ routed[c].some => routed[c].val.status_code \in {200, 201, 404}
        /\ response[c].some => response[c].val.status_code \in {200, 201, 404}
        /\ outcome[c] = "panic" => request[c] = None

\* a response with status 201 has been written
C8_Witness ==
    \E c \in Conns : Answered(c) /\ response[c].val.status_code = 201

NoAnswer == [status_code |-> 0]

\* the answer of the routing table to the connection's request, given the
\* file store: a Response, or NoAnswer for a connection closed in the router
TableAnswer(c) ==
    LET req  == request[c].val
        url  == req.line.url
        uas  == {i \in 1..Len(req.headers) : req.headers[i].tag = "UserAgent"}
        ua   == req.headers[CHOOSE i \in uas : \A j \in uas : i =< j].agent
        Text(t) == [status_code |-> 200,
                    headers |-> <<[tag |-> "ContentType", content_type |-> "TextPlain"],
                                  [tag |-> "ContentLength", length |-> Len(t)]>>,
                    body |-> [some |-> TRUE, val |-> t]]
        Bare(code) == [status_code |-> code, headers |-> <<>>, body |-> [some |-> FALSE]]
        name == Drop(url, 7)
    IN  IF url = "/" THEN Bare(200)
        ELSE IF url = "/user-agent" THEN (IF uas = {} THEN NoAnswer ELSE Text(ua))
        ELSE IF Len(url) >= 6 /\ Take(url, 6) = "/echo/" THEN Text(Drop(url, 6))
        ELSE IF Len(url) >= 7 /\ Take(url, 7) = "/files/"
        THEN IF req.line.method = "Get"
             THEN IF name \in DOMAIN files
                  THEN [status_code |-> 200,
                        headers |-> <<[tag |-> "ContentType",
                                       content_type |-> "ApplicationOctetStream"],
                                      [tag |-> "ContentLength", length |-> Len(files[name])]>>,
                        body |-> [some |-> TRUE, val |-> files[name]]]
                  ELSE Bare(404)
             ELSE IF req.body.some /\ name \notin {"", ".", ".."}
                  THEN Bare(201)
                  ELSE NoAnswer
        ELSE Bare(404)

\* C9: routing is total and follows the table.  Every parsed request leaves
\* the router with the table's Response, or closed silently where the table
\* has a failure: "/" gives 200 without body; "/user-agent" the text of the
\* first User-Agent header; "/echo/<s>" the text <s>; GET "/files/<n>" the
\* file n or 404; POST "/files/<n>" 201 with the body stored under n; every
\* other URL 404 without body, for both methods.
C9_RoutingTable ==
    \A c \in Conns :
        Routed(c) =>
            /\ IF TableAnswer(c) = NoAnswer THEN ClosedSilently(c)
               ELSE routed[c] = Some(TableAnswer(c))
            /\ IsFilesUrl(c) /\ routed[c] = Some(Response(201, <<>>, None)) =>
                  /\ FileName(c) \in DOMAIN files
                  /\ files[FileName(c)] = request[c].val.body.val

\* a POST for /files, without the slash, has been answered 404
C9_Witness ==
    \E c \in Conns :
        /\ Answered(c)
        /\ HasUrl(c, "/files")
        /\ request[c].val.line.method = "Post"
        /\ wire[c] = "HTTP/1.1 404 Not Found\r\n\r\n"

\* the file gateway cannot open or read the connection's file: there is no
\* file of that name, or the name makes the path of a directory
ReadFails(c) == FileName(c) \notin DOMAIN files \/ FileName(c) \in {"", ".", ".."}

\* the file gateway cannot write the connection's file
WriteFails(c) == FileName(c) \in {"", ".", ".."}

\* C10: a GET /files/<name> whose open or read fails is answered 404 with an
\* empty body, and no routing step of a GET changes the file store; a POST
\* /files/<name> with a body whose write fails is closed with no byte written.
C10_FileFailures ==
    /\ [](\A c \in Conns :
            Routed(c) /\ IsFilesUrl(c) =>
                /\ request[c].val.line.method = "Get" /\ ReadFails(c) =>
                      /\ routed[c] = Some(Response(404, <<>>, None))
                      /\ Answered(c) =>
                            /\ WireStatus(wire[c]) = "HTTP/1.1 404 Not Found"
                            /\ WireBody(wire[c]) = ""
                /\ /\ request[c].val.line.method = "Post"
                   /\ request[c].val.body.some
                   /\ WriteFails(c)
                   => ClosedSilently(c))
    /\ [][\A c \in Conns :
            Routing(c) /\ IsFilesUrl(c) /\ request[c].val.line.method = "Get"
            => files' = files]_vars

\* a GET for the directory files/ itself has been answered 404 while a file
\* exists
C10_Witness ==
    \E c \in Conns :
        /\ Answered(c)
        /\ HasUrl(c, "/files/")
        /\ request[c].val.line.method = "Get"
        /\ WireStatus(wire[c]) = "HTTP/1.1 404 Not Found"
        /\ files # <<>>

\* the step in which connection c ends its fs::write while no other
\* connection is in the middle of a write to the same file
LastWriteEnds(c) ==
    /\ pc[c] = "fs_write"
    /\ pc'[c] = "respond"
    /\ \A d \in Conns \ {c} :
          pc[d] = "fs_write" => pending[d].file_name # pending[c].file_name

\* C11 as stated: when concurrent POSTs to one file name have all completed,
\* the file holds exactly the body of the write that finished last.
C11_LastWriteWins ==
    [][\A c \in Conns :
          LastWriteEnds(c) => files'[pending[c].file_name] = pending[c].contents]_vars

\* the part of C11 that holds: the file begins with the body of the write
\* that finished last, and a write that began after every other write to the
\* file had ended leaves exactly its body
C11_LastWriteOnTop ==
    [][\A c \in Conns :
          LastWriteEnds(c) =>
              /\ starts_with(files'[pending[c].file_name], pending[c].contents)
              /\ files[pending[c].file_name] = "" =>
                    files'[pending[c].file_name] = pending[c].contents]_vars

\* C12: no cross-talk.  Under every interleaving, the request a connection
\* holds is the one parsed from its own bytes; the answer written to a
\* request outside /files/ is the answer an undisturbed server with an empty
\* store gives to the same bytes; a POST to /files/ is answered with
\* Response::created(); a GET to /files/ is routed to the file as the store
\* holds it at that step; and the bytes written are the serialization of the
\* connection's own response.
C12_NoCrossTalk ==
    /\ [](\A c \in Conns :
            /\ request[c].some => Parsed(raw[c]) = Ok(request[c].val)
            /\ Answered(c) /\ ~IsFilesUrl(c) => Served(raw[c], <<>>) = Ok(wire[c])
            /\ Answered(c) =>
                  write_to(Negotiated(request[c].val, routed[c].val).val) = Ok(wire[c])
            /\ /\ IsFilesUrl(c)
               /\ request[c].val.line.method = "Post"
               /\ routed[c].some
               => routed[c] = Some(created))
    /\ [][\A c \in Conns :
            Routing(c) /\ IsFilesUrl(c) /\ request[c].val.line.method = "Get"
            => routed'[c] = Some(file(files, FileName(c)))]_vars

\* a request for / has been answered 200 while the other client's request,
\* for /echo/hi with gzip, is between its routing and its write
C12_Witness ==
    /\ Answered("c1")
    /\ HasUrl("c1", "/")
    /\ wire["c1"] = "HTTP/1.1 200 OK\r\n\r\n"
    /\ pc["c2"] = "respond"
    /\ HasUrl("c2", "/echo/hi")

\* the header lines of the connection's decoded bytes that name User-Agent
\* before their first colon, in any case and with any whitespace around
UserAgentLines(c) ==
    LET bytes == Sliced(raw[c]).val
        parts == split(bytes, "\r\n")
    IN  {i \in HeaderLineIndexes(bytes) :
            /\ FindFrom(parts[i], ":", 1) # 0
            /\ to_lowercase(trim(Take(parts[i], FindFrom(parts[i], ":", 1) - 1)))
                  = "user-agent"}

\* the first of them
UserAgentLine(c) ==
    split(Sliced(raw[c]).val, "\r\n")
        [CHOOSE i \in UserAgentLines(c) : \A j \in UserAgentLines(c) : i =< j]

\* C13 as stated: a request for /user-agent with a User-Agent line is routed
\* to 200 text/plain whose body is everything after the first colon of that
\* line, trimmed, colons included.
C13_FirstColonOnly ==
    \A c \in Conns :
        Routed(c) /\ HasUrl(c, "/user-agent") /\ UserAgentLines(c) # {} =>
            LET line == UserAgentLine(c)
                V    == trim(Drop(line, FindFrom(line, ":", 1)))
            IN  /\ routed[c].some
                /\ routed[c].val.status_code = 200
                /\ routed[c].val.headers[1] = ContentType("TextPlain")
                /\ routed[c].val.body = Some(V)

\* the part of C13 that holds: the body is the text between the first colon
\* of the line and its second colon, or its end, trimmed
C13_UpToSecondColon ==
    \A c \in Conns :
        Routed(c) /\ HasUrl(c, "/user-agent") /\ UserAgentLines(c) # {} =>
            LET line == UserAgentLine(c)
                rest == Drop(line, FindFrom(line, ":", 1))
                k    == FindFrom(rest, ":", 1)
                V    == trim(IF k = 0 THEN rest ELSE Take(rest, k - 1))
            IN  routed[c] = Some(text(V))

\* C14 as stated: the parsed body is the whole remainder of the input after
\* the first empty line, CRLFs included, and it is None exactly when that
\* remainder is empty or there is no empty line.
C14_BodyVerbatim ==
    \A c \in Conns :
        request[c].some =>
            LET rest == SentBody(Sliced(raw[c]).val)
            IN  request[c].val.body = IF rest = "" THEN None ELSE Some(rest)

\* the part of C14 that holds: the body is the remainder up to its first
\* CRLF, and None when there is no remainder
C14_BodyUpToCrlf ==
    \A c \in Conns :
        request[c].some =>
            LET rest == SentBody(Sliced(raw[c]).val)
                k    == FindFrom(rest, "\r\n", 1)
            IN  request[c].val.body =
                    IF rest = "" THEN None
                    ELSE Some(IF k = 0 THEN rest ELSE Take(rest, k - 1))

\* the steps of one connection, in the order of main and handle_connection
CycleSteps ==
    {<<"idle", "queued">>, <<"queued", "read">>,
     <<"read", "route">>, <<"read", "closed">>,
     <<"route", "fs_write">>, <<"route", "respond">>, <<"route", "closed">>,
     <<"fs_write", "respond">>,
     <<"respond", "closed">>,
     <<"closed", "idle">>}

\* the number of Content-Encoding headers of a response
RECURSIVE Encodings(_)
Encodings(headers) ==
    IF headers = <<>> THEN 0
    ELSE (IF Head(headers) = ContentEncoding THEN 1 ELSE 0) + Encodings(Tail(headers))

\* C15: each connection takes the steps read, parse, route (with at most one
\* call on the file store), compression, serialization, write and close once
\* and in this order.  Each product of the cycle is set by its own step only:
\* the bytes and the request by the read, the router's response by the step
\* out of the router, the final response and the bytes written by the last
\* step.  The final response is the router's, compressed at most once, and is
\* what is written.  A connection that failed has none of the products of the
\* steps after the failure, and a failed write leaves no complete response.
C15_OneCycleInOrder ==
    /\ [][\A c \in Conns :
            /\ pc'[c] # pc[c] => <<pc[c], pc'[c]>> \in CycleSteps
            /\ raw'[c] # raw[c] => pc[c] \in {"read", "closed"}
            /\ request'[c] # request[c] =>
                  <<pc[c], pc'[c]>> \in {<<"read", "route">>, <<"closed", "idle">>}
            /\ routed'[c] # routed[c] =>
                  /\ pc[c] \in {"route", "fs_write", "closed"}
                  /\ pc'[c] \in {"respond", "idle"}
            /\ response'[c] # response[c] \/ wire'[c] # wire[c] =>
                  <<pc[c], pc'[c]>> \in {<<"respond", "closed">>, <<"closed", "idle">>}
            /\ pc[c] \notin {"route", "fs_write"} /\ pc'[c] # pc[c] => files' = files]_vars
    /\ [](\A c \in Conns :
            /\ response[c].some =>
                  /\ response[c] \in {routed[c], Some(compressed(routed[c].val).val)}
                  /\ Encodings(response[c].val.headers) =< 1
            /\ Answered(c) => write_to(response[c].val) = Ok(wire[c])
            /\ pc[c] = "closed" /\ outcome[c] # "ok" =>
                  /\ request[c] = None => routed[c] = None /\ pending[c] = NoWrite
                  /\ routed[c] = None => response[c] = None /\ wire[c] = ""
                  /\ response[c].some =>
                        /\ wire[c] \in {"", HeadText(response[c].val).val}
                        /\ write_to(response[c].val) # Ok(wire[c]))

\* a POST to /files/a that negotiated gzip has gone through the whole cycle:
\* the file is written and the compressed 201 is on the socket
C15_Witness ==
    \E c \in Conns :
        /\ Answered(c)
        /\ HasUrl(c, "/files/a")
        /\ request[c].val.line.method = "Post"
        /\ Negotiates(c)
        /\ "a" \in DOMAIN files
        /\ wire[c] = "HTTP/1.1 201 Created\r\nContent-Encoding: gzip\r\n\r\n"

\* the positions of connection c in the queue of the pool
InQueue(c) == {i \in 1..Len(queue) : queue[i] = c}

\* C16: at every moment at most PoolSize connections (the capacity of the
\* pool, NUM_THREADS in main) are inside handle_connection; a connection
\* inside it has one worker of the pool, which no other connection has and
\* which stays the same until the connection is closed; a connection is in
\* the queue of the pool exactly once between its accept and the start of
\* its job and never otherwise: main submits it once, and the step that
\* starts it takes it off the head of the queue.
C16_BoundedOwned ==
    /\ [](/\ Cardinality(Busy) =< PoolSize
          /\ \A c \in Conns :
                /\ worker[c] \in (IF c \in Busy THEN 1..PoolSize ELSE {0})
                /\ \A d \in Busy \ {c} : c \in Busy => worker[d] # worker[c]
                /\ Cardinality(InQueue(c)) = (IF pc[c] = "queued" THEN 1 ELSE 0))
    /\ [][\A c \in Conns :
            /\ pc[c] \in InHandler /\ pc'[c] \in InHandler => worker'[c] = worker[c]
            /\ pc[c] = "idle" /\ pc'[c] # "idle" =>
                  pc'[c] = "queued" /\ queue' = Append(queue, c)
            /\ pc[c] = "queued" /\ pc'[c] # "queued" =>
                  pc'[c] = "read" /\ queue = <<c>> \o queue']_vars

\* both clients are inside handle_connection, on different workers, past
\* their read, and a third connection waits in the queue
C16_Witness ==
    /\ Cardinality(Busy) = PoolSize
    /\ pc["c1"] = "respond"
    /\ pc["c2"] = "fs_write"
    /\ worker["c1"] # worker["c2"]
    /\ queue # <<>>

\* the silent clients whose connection a worker is reading
Stalled == {s \in Silent : pc[s] = "read"}

\* every worker of the pool is blocked in the read of a silent client
Exhausted == Cardinality(Stalled) = PoolSize

\* C17: the connection of a client that never sends stays in its read, on
\* its worker, for ever.  Once PoolSize such connections are being read the
\* pool is exhausted: no other connection is inside handle_connection, a
\* connection accepted then is still put in the queue, and no connection in
\* the queue is started: it stays in the queue with nothing read from it and
\* nothing written to it.
C17_PoolExhaustion ==
    /\ [][\A s \in Silent :
            pc[s] = "read" => pc'[s] = "read" /\ worker'[s] = worker[s]]_vars
    /\ [](Exhausted => Busy = Stalled)
    /\ [](\A c \in Conns : pc[c] = "queued" => raw[c] = "" /\ wire[c] = "")
    /\ [][Exhausted =>
            \A c \in Conns :
                /\ pc[c] = "queued" => pc'[c] = "queued"
                /\ pc[c] = "idle" /\ pc'[c] # "idle" =>
                      pc'[c] = "queued" /\ queue' = Append(queue, c)]_vars

\* the pool is exhausted by silent clients, one more silent client and both
\* other clients have been accepted since and wait in the queue
C17_Witness ==
    /\ Exhausted
    /\ \A s \in Silent : pc[s] \in {"read", "queued"}
    /\ \A c \in Clients : pc[c] = "queued"
    /\ Len(queue) = Cardinality(Silent) - PoolSize + Cardinality(Clients)

\* the step in which handle_connection returns an error for connection c
FailStep(c) == pc[c] \in InHandler /\ pc'[c] = "closed" /\ outcome'[c] = "err"

\* connection c is as it was
Untouched(c) ==
    /\ pc'[c] = pc[c]
    /\ raw'[c] = raw[c]
    /\ request'[c] = request[c]
    /\ routed'[c] = routed[c]
    /\ response'[c] = response[c]
    /\ wire'[c] = wire[c]
    /\ outcome'[c] = outcome[c]
    /\ worker'[c] = worker[c]

\* C18: an error returned by handle_connection is logged and changes nothing
\* but the failed connection, which gives its worker back; an error of the
\* accept loop is logged and changes nothing else; the queue of the pool
\* only ever changes by an accepted connection put at its end or by the
\* start of the job at its head.  Whether or not errors have been logged,
\* every connection answered gets the answer of an undisturbed server to its
\* bytes: for a POST to /files/ the 201, otherwise the answer computed from
\* the bytes and the file store alone.
C18_ErrorsIsolated ==
    /\ [][\A c \in Conns :
            FailStep(c) =>
                /\ logged'
                /\ worker'[c] = 0
                /\ queue' = queue
                /\ files' = files
                /\ \A d \in Conns \ {c} : Untouched(d)]_vars
    /\ [][logged' # logged /\ pc' = pc =>
            /\ queue' = queue
            /\ files' = files
            /\ \A c \in Conns : Untouched(c)]_vars
    /\ [][queue' # queue =>
            \E c \in Conns :
                \/ pc[c] = "idle" /\ pc'[c] = "queued" /\ queue' = Append(queue, c)
                \/ pc[c] = "queued" /\ pc'[c] = "read" /\ queue = <<c>> \o queue']_vars
    /\ [](\A c \in Conns :
            /\ pc[c] = "closed" => worker[c] = 0
            /\ Answered(c) =>
                  IF IsFilesUrl(c) /\ request[c].val.line.method = "Post"
                  THEN write_to(Negotiated(request[c].val, created).val) = Ok(wire[c])
                  ELSE Served(raw[c], files) = Ok(wire[c]))

\* errors have been logged and a request for /echo/hi is answered in full
C18_Witness ==
    \E c \in Conns :
        /\ logged
        /\ Answered(c)
        /\ HasUrl(c, "/echo/hi")
        /\ WireStatus(wire[c]) = "HTTP/1.1 200 OK"

\* C19 as stated: whatever bytes the read returns, handle_connection writes
\* a response or returns an error; the worker never panics.
C19_NoPanic == \A c \in Conns : outcome[c] # "panic"

\* the part of C19 that holds: the only panic is the slice of the decoded
\* buffer at bytes_read, and it happens exactly when bytes_read is not a
\* character boundary of the decoded string
C19_PanicOnlyInSlice ==
    \A c \in Conns :
        pc[c] = "closed" =>
            (outcome[c] = "panic" <=>
                ~is_char_boundary(from_utf8_lossy(raw[c]), Len(raw[c])))

\* C20: the headers of every Response handed to write_to are ContentType,
\* ContentLength or ContentEncoding, so that each of them has a Display;
\* every Response of the router that has a body has a ContentLength header,
\* so that compressed() finds one; and no connection that reached the router
\* ends in a panic.
C20_HeadersWritable ==
    \A c \in Conns :
        /\ response[c].some =>
              /\ \A i \in 1..Len(response[c].val.headers) :
                     response[c].val.headers[i].tag
                         \in {"ContentType", "ContentLength", "ContentEncoding"}
              /\ HeadersText(response[c].val.headers).ok
        /\ routed[c].some /\ routed[c].val.body.some =>
              /\ FindContentLength(routed[c].val.headers, 1) # 0
              /\ compressed(routed[c].val).ok
        /\ routed[c].some => outcome[c] # "panic"

\* the file a, with gzip negotiated, has been answered with the three
\* headers Content-Type, Content-Length and Content-Encoding
C20_Witness ==
    \E c \in Conns :
        /\ Answered(c)
        /\ HasUrl(c, "/files/a")
        /\ request[c].val.line.method = "Get"
        /\ Negotiates(c)
        /\ Len(response[c].val.headers) = 3
        /\ response[c].val.body.some

====
